---- MODULE Spec2Model ----
(***************************************************************************)
(* A model of package wrpslog: the field selector catalog (fields.go) and  *)
(* the Observer with its once-compiled slot table (observer.go).           *)
(*                                                                         *)
(* Go values are represented as follows.                                   *)
(*   string            a TLA+ string                                       *)
(*   *int64            <<>> for nil, <<n>> for a pointer to n              *)
(*   []string          [isnil, elems] with elems a sequence of strings     *)
(*   map[string]string [isnil, elems] with elems = <<k1, v1, k2, v2, ..>>  *)
(*   []byte            [isnil, elems] with elems a sequence of 0..255      *)
(*   slog.Value        [kind, num, str, any]; the fields a kind does not   *)
(*                     use hold their zero                                 *)
(*   slog.Attr         [Key, Value]                                        *)
(*   fieldFunc         the name of the constructor whose closure it is,    *)
(*                     NilFn for a nil func                                *)
(*   FieldOpt          the name of the constructor that returned it,       *)
(*                     NilOpt for a nil FieldOpt                           *)
(***************************************************************************)
EXTENDS Integers, Sequences, FiniteSets, TLC

\* ------------------------------------------------------------ fields.go
\* Field name constants matching WRP message JSON tags.
fMsgType == "msg_type"
fSource == "source"
fDestination == "dest"
fTransactionUUID == "transaction_uuid"
fContentType == "content_type"
fAccept == "accept"
fStatus == "status"
fRequestDeliveryResponse == "rdr"
fHeaders == "headers"
fMetadata == "metadata"
fPath == "path"
fPayload == "payload"
fPayloadSize == "payload_size"
fServiceName == "service_name"
fURL == "url"
fPartnerIDs == "partner_ids"
fSessionID == "session_id"
fQualityOfService == "qos"

\* fieldIndex: the slot of each field in the Observer's array (iota).
idxMsgType == 0
idxSource == 1
idxDestination == 2
idxTransactionUUID == 3
idxContentType == 4
idxAccept == 5
idxStatus == 6
idxRequestDeliveryResponse == 7
idxHeaders == 8
idxMetadata == 9
idxPath == 10
idxPayload == 11
idxPayloadSize == 12
idxServiceName == 13
idxURL == 14
idxPartnerIDs == 15
idxSessionID == 16
idxQualityOfService == 17
fieldCount == 18

Slots == 0 .. (fieldCount - 1)

NilFn == "nil"
NilOpt == "nil"

\* A FieldOpt of the caller's own; Fields takes any func(*Observer).  This
\* one observes a message with the Observer it is given:
\* func(ob *Observer) { ob.ObserveWRP(ctx, msg) }.
ReenterOpt == "reenter"

\* ------------------------------------------------------------ slog values
NilAny == [type |-> "nil", isnil |-> TRUE, elems |-> <<>>]

\* slog.Value{}: the zero Value is KindAny holding nil.
ZeroValue == [kind |-> "Any", num |-> 0, str |-> "", any |-> NilAny]

\* slog.Attr{}: the zero Attr, whose empty Key marks a skipped field.
ZeroAttr == [Key |-> "", Value |-> ZeroValue]

\* slog.String(key, value)
slogString(key, s) == [Key |-> key, Value |-> [ZeroValue EXCEPT !.kind = "String", !.str = s]]

\* slog.Int64(key, value)
slogInt64(key, n) == [Key |-> key, Value |-> [ZeroValue EXCEPT !.kind = "Int64", !.num = n]]

\* slog.Int(key, value): converts to int64.
slogInt(key, n) == slogInt64(key, n)

\* slog.Any(key, value) for a []string or map[string]string value: the
\* container is carried as it is, nil or not.
slogAny(key, type, v) ==
    [Key |-> key,
     Value |-> [ZeroValue EXCEPT !.any = [type |-> type, isnil |-> v.isnil, elems |-> v.elems]]]

\* ------------------------------------------------------------ conversions
B64Alphabet ==
    << "A", "B", "C", "D", "E", "F", "G", "H", "I", "J", "K", "L", "M",
       "N", "O", "P", "Q", "R", "S", "T", "U", "V", "W", "X", "Y", "Z",
       "a", "b", "c", "d", "e", "f", "g", "h", "i", "j", "k", "l", "m",
       "n", "o", "p", "q", "r", "s", "t", "u", "v", "w", "x", "y", "z",
       "0", "1", "2", "3", "4", "5", "6", "7", "8", "9", "+", "/" >>

B64Char(n) == B64Alphabet[n + 1]

\* base64.StdEncoding.EncodeToString: three bytes to four characters,
\* the tail padded with "=".
RECURSIVE EncodeToString(_)
EncodeToString(b) ==
    IF Len(b) = 0 THEN ""
    ELSE IF Len(b) = 1 THEN
        B64Char(b[1] \div 4) \o B64Char((b[1] % 4) * 16) \o "=="
    ELSE IF Len(b) = 2 THEN
        B64Char(b[1] \div 4) \o B64Char((b[1] % 4) * 16 + b[2] \div 16)
            \o B64Char((b[2] % 16) * 4) \o "="
    ELSE
        B64Char(b[1] \div 4) \o B64Char((b[1] % 4) * 16 + b[2] \div 16)
            \o B64Char((b[2] % 16) * 4 + b[3] \div 64) \o B64Char(b[3] % 64)
            \o EncodeToString(SubSeq(b, 4, Len(b)))

\* wrp.MessageType.String() for the message types of the model.
MessageTypeString(t) ==
    CASE t = 3 -> "SimpleRequestResponse"
      [] t = 4 -> "SimpleEvent"
      [] OTHER -> "Invalid0"

\* ------------------------------------------------------------ selectors
\* The closure each constructor stores in its slot, as a function of the
\* message.
MessageTypeAsString_fn(msg) == slogString(fMsgType, MessageTypeString(msg.Type))

MessageTypeAsNum_fn(msg) == slogInt(fMsgType, msg.Type)

\* Mutant of Source_fn: the empty source is not omitted.
Source_fn_NoOmit(msg) == slogString(fSource, msg.Source)

Source_fn(msg) ==
    IF msg.Source = "" THEN ZeroAttr ELSE slogString(fSource, msg.Source)

SourceAlways_fn(msg) == slogString(fSource, msg.Source)

Destination_fn(msg) ==
    IF msg.Destination = "" THEN ZeroAttr ELSE slogString(fDestination, msg.Destination)

\* Mutant of DestinationAlways_fn: the attribute is given the key of the
\* source.
DestinationAlways_fn_SourceKey(msg) == slogString(fSource, msg.Destination)

DestinationAlways_fn(msg) == slogString(fDestination, msg.Destination)

TransactionUUID_fn(msg) ==
    IF msg.TransactionUUID = "" THEN ZeroAttr
    ELSE slogString(fTransactionUUID, msg.TransactionUUID)

TransactionUUIDAlways_fn(msg) == slogString(fTransactionUUID, msg.TransactionUUID)

ContentType_fn(msg) ==
    IF msg.ContentType = "" THEN ZeroAttr ELSE slogString(fContentType, msg.ContentType)

ContentTypeAlways_fn(msg) == slogString(fContentType, msg.ContentType)

Accept_fn(msg) ==
    IF msg.Accept = "" THEN ZeroAttr ELSE slogString(fAccept, msg.Accept)

AcceptAlways_fn(msg) == slogString(fAccept, msg.Accept)

Status_fn(msg) ==
    IF msg.Status = <<>> THEN ZeroAttr ELSE slogInt64(fStatus, msg.Status[1])

\* Mutant of StatusAlways_fn: a nil status is omitted.
StatusAlways_fn_Omit(msg) ==
    IF msg.Status = <<>> THEN ZeroAttr ELSE slogInt64(fStatus, msg.Status[1])

StatusAlways_fn(msg) ==
    IF msg.Status = <<>> THEN slogInt64(fStatus, 0) ELSE slogInt64(fStatus, msg.Status[1])

RequestDeliveryResponse_fn(msg) ==
    IF msg.RequestDeliveryResponse = <<>> THEN ZeroAttr
    ELSE slogInt64(fRequestDeliveryResponse, msg.RequestDeliveryResponse[1])

RequestDeliveryResponseAlways_fn(msg) ==
    IF msg.RequestDeliveryResponse = <<>> THEN slogInt64(fRequestDeliveryResponse, 0)
    ELSE slogInt64(fRequestDeliveryResponse, msg.RequestDeliveryResponse[1])

Headers_fn(msg) ==
    IF Len(msg.Headers.elems) = 0 THEN ZeroAttr
    ELSE slogAny(fHeaders, "[]string", msg.Headers)

HeadersAlways_fn(msg) == slogAny(fHeaders, "[]string", msg.Headers)

Metadata_fn(msg) ==
    IF Len(msg.Metadata.elems) = 0 THEN ZeroAttr
    ELSE slogAny(fMetadata, "map[string]string", msg.Metadata)

MetadataAlways_fn(msg) == slogAny(fMetadata, "map[string]string", msg.Metadata)

Path_fn(msg) ==
    IF msg.Path = "" THEN ZeroAttr ELSE slogString(fPath, msg.Path)

PathAlways_fn(msg) == slogString(fPath, msg.Path)

PayloadAsBase64_fn(msg) ==
    IF Len(msg.Payload.elems) = 0 THEN ZeroAttr
    ELSE slogString(fPayload, EncodeToString(msg.Payload.elems))

PayloadAsBase64Always_fn(msg) == slogString(fPayload, EncodeToString(msg.Payload.elems))

\* Mutant of PayloadSize_fn: the size is that of the base64 text.
PayloadSize_fn_Encoded(msg) ==
    IF Len(msg.Payload.elems) = 0 THEN ZeroAttr
    ELSE slogInt(fPayloadSize, Len(EncodeToString(msg.Payload.elems)))

PayloadSize_fn(msg) ==
    IF Len(msg.Payload.elems) = 0 THEN ZeroAttr
    ELSE slogInt(fPayloadSize, Len(msg.Payload.elems))

PayloadSizeAlways_fn(msg) == slogInt(fPayloadSize, Len(msg.Payload.elems))

ServiceName_fn(msg) ==
    IF msg.ServiceName = "" THEN ZeroAttr ELSE slogString(fServiceName, msg.ServiceName)

ServiceNameAlways_fn(msg) == slogString(fServiceName, msg.ServiceName)

URL_fn(msg) ==
    IF msg.URL = "" THEN ZeroAttr ELSE slogString(fURL, msg.URL)

URLAlways_fn(msg) == slogString(fURL, msg.URL)

PartnerIDs_fn(msg) ==
    IF Len(msg.PartnerIDs.elems) = 0 THEN ZeroAttr
    ELSE slogAny(fPartnerIDs, "[]string", msg.PartnerIDs)

PartnerIDsAlways_fn(msg) == slogAny(fPartnerIDs, "[]string", msg.PartnerIDs)

SessionID_fn(msg) ==
    IF msg.SessionID = "" THEN ZeroAttr ELSE slogString(fSessionID, msg.SessionID)

SessionIDAlways_fn(msg) == slogString(fSessionID, msg.SessionID)

QualityOfServiceAlways_fn(msg) == slogInt(fQualityOfService, msg.QualityOfService)

\* fn(msg) for the fieldFunc stored in a slot.
CallFieldFunc(fn, msg) ==
    CASE fn = "MessageTypeAsString" -> MessageTypeAsString_fn(msg)
      [] fn = "MessageTypeAsNum" -> MessageTypeAsNum_fn(msg)
      [] fn = "Source" -> Source_fn(msg)
      [] fn = "SourceAlways" -> SourceAlways_fn(msg)
      [] fn = "Destination" -> Destination_fn(msg)
      [] fn = "DestinationAlways" -> DestinationAlways_fn(msg)
      [] fn = "TransactionUUID" -> TransactionUUID_fn(msg)
      [] fn = "TransactionUUIDAlways" -> TransactionUUIDAlways_fn(msg)
      [] fn = "ContentType" -> ContentType_fn(msg)
      [] fn = "ContentTypeAlways" -> ContentTypeAlways_fn(msg)
      [] fn = "Accept" -> Accept_fn(msg)
      [] fn = "AcceptAlways" -> AcceptAlways_fn(msg)
      [] fn = "Status" -> Status_fn(msg)
      [] fn = "StatusAlways" -> StatusAlways_fn(msg)
      [] fn = "RequestDeliveryResponse" -> RequestDeliveryResponse_fn(msg)
      [] fn = "RequestDeliveryResponseAlways" -> RequestDeliveryResponseAlways_fn(msg)
      [] fn = "Headers" -> Headers_fn(msg)
      [] fn = "HeadersAlways" -> HeadersAlways_fn(msg)
      [] fn = "Metadata" -> Metadata_fn(msg)
      [] fn = "MetadataAlways" -> MetadataAlways_fn(msg)
      [] fn = "Path" -> Path_fn(msg)
      [] fn = "PathAlways" -> PathAlways_fn(msg)
      [] fn = "PayloadAsBase64" -> PayloadAsBase64_fn(msg)
      [] fn = "PayloadAsBase64Always" -> PayloadAsBase64Always_fn(msg)
      [] fn = "PayloadSize" -> PayloadSize_fn(msg)
      [] fn = "PayloadSizeAlways" -> PayloadSizeAlways_fn(msg)
      [] fn = "ServiceName" -> ServiceName_fn(msg)
      [] fn = "ServiceNameAlways" -> ServiceNameAlways_fn(msg)
      [] fn = "URL" -> URL_fn(msg)
      [] fn = "URLAlways" -> URLAlways_fn(msg)
      [] fn = "PartnerIDs" -> PartnerIDs_fn(msg)
      [] fn = "PartnerIDsAlways" -> PartnerIDsAlways_fn(msg)
      [] fn = "SessionID" -> SessionID_fn(msg)
      [] fn = "SessionIDAlways" -> SessionIDAlways_fn(msg)
      [] fn = "QualityOfServiceAlways" -> QualityOfServiceAlways_fn(msg)

\* ------------------------------------------------------------ constructors
\* Each FieldOpt, applied to the Observer's array ob.fields: it stores its
\* closure in its slot.
MessageTypeAsString(f) == [f EXCEPT ![idxMsgType] = "MessageTypeAsString"]
MessageTypeAsNum(f) == [f EXCEPT ![idxMsgType] = "MessageTypeAsNum"]
\* Mutant of MessageType: an alias of the string form.
MessageType_AsString(f) == MessageTypeAsString(f)
MessageType(f) == MessageTypeAsNum(f)
Source(f) == [f EXCEPT ![idxSource] = "Source"]
SourceAlways(f) == [f EXCEPT ![idxSource] = "SourceAlways"]
Destination(f) == [f EXCEPT ![idxDestination] = "Destination"]
DestinationAlways(f) == [f EXCEPT ![idxDestination] = "DestinationAlways"]
TransactionUUID(f) == [f EXCEPT ![idxTransactionUUID] = "TransactionUUID"]
TransactionUUIDAlways(f) == [f EXCEPT ![idxTransactionUUID] = "TransactionUUIDAlways"]
ContentType(f) == [f EXCEPT ![idxContentType] = "ContentType"]
ContentTypeAlways(f) == [f EXCEPT ![idxContentType] = "ContentTypeAlways"]
Accept(f) == [f EXCEPT ![idxAccept] = "Accept"]
AcceptAlways(f) == [f EXCEPT ![idxAccept] = "AcceptAlways"]
Status(f) == [f EXCEPT ![idxStatus] = "Status"]
StatusAlways(f) == [f EXCEPT ![idxStatus] = "StatusAlways"]
RequestDeliveryResponse(f) ==
    [f EXCEPT ![idxRequestDeliveryResponse] = "RequestDeliveryResponse"]
RequestDeliveryResponseAlways(f) ==
    [f EXCEPT ![idxRequestDeliveryResponse] = "RequestDeliveryResponseAlways"]
Headers(f) == [f EXCEPT ![idxHeaders] = "Headers"]
HeadersAlways(f) == [f EXCEPT ![idxHeaders] = "HeadersAlways"]
Metadata(f) == [f EXCEPT ![idxMetadata] = "Metadata"]
MetadataAlways(f) == [f EXCEPT ![idxMetadata] = "MetadataAlways"]
Path(f) == [f EXCEPT ![idxPath] = "Path"]
PathAlways(f) == [f EXCEPT ![idxPath] = "PathAlways"]
PayloadAsBase64(f) == [f EXCEPT ![idxPayload] = "PayloadAsBase64"]
PayloadAsBase64Always(f) == [f EXCEPT ![idxPayload] = "PayloadAsBase64Always"]
PayloadSize(f) == [f EXCEPT ![idxPayloadSize] = "PayloadSize"]
PayloadSizeAlways(f) == [f EXCEPT ![idxPayloadSize] = "PayloadSizeAlways"]
ServiceName(f) == [f EXCEPT ![idxServiceName] = "ServiceName"]
ServiceNameAlways(f) == [f EXCEPT ![idxServiceName] = "ServiceNameAlways"]
URL(f) == [f EXCEPT ![idxURL] = "URL"]
URLAlways(f) == [f EXCEPT ![idxURL] = "URLAlways"]
PartnerIDs(f) == [f EXCEPT ![idxPartnerIDs] = "PartnerIDs"]
PartnerIDsAlways(f) == [f EXCEPT ![idxPartnerIDs] = "PartnerIDsAlways"]
SessionID(f) == [f EXCEPT ![idxSessionID] = "SessionID"]
SessionIDAlways(f) == [f EXCEPT ![idxSessionID] = "SessionIDAlways"]
QualityOfServiceAlways(f) == [f EXCEPT ![idxQualityOfService] = "QualityOfServiceAlways"]
QualityOfService(f) == QualityOfServiceAlways(f)

\* opt(ob) for a non-nil FieldOpt.
ApplyOpt(opt, f) ==
    CASE opt = "MessageType" -> MessageType(f)
      [] opt = "MessageTypeAsString" -> MessageTypeAsString(f)
      [] opt = "MessageTypeAsNum" -> MessageTypeAsNum(f)
      [] opt = "Source" -> Source(f)
      [] opt = "SourceAlways" -> SourceAlways(f)
      [] opt = "Destination" -> Destination(f)
      [] opt = "DestinationAlways" -> DestinationAlways(f)
      [] opt = "TransactionUUID" -> TransactionUUID(f)
      [] opt = "TransactionUUIDAlways" -> TransactionUUIDAlways(f)
      [] opt = "ContentType" -> ContentType(f)
      [] opt = "ContentTypeAlways" -> ContentTypeAlways(f)
      [] opt = "Accept" -> Accept(f)
      [] opt = "AcceptAlways" -> AcceptAlways(f)
      [] opt = "Status" -> Status(f)
      [] opt = "StatusAlways" -> StatusAlways(f)
      [] opt = "RequestDeliveryResponse" -> RequestDeliveryResponse(f)
      [] opt = "RequestDeliveryResponseAlways" -> RequestDeliveryResponseAlways(f)
      [] opt = "Headers" -> Headers(f)
      [] opt = "HeadersAlways" -> HeadersAlways(f)
      [] opt = "Metadata" -> Metadata(f)
      [] opt = "MetadataAlways" -> MetadataAlways(f)
      [] opt = "Path" -> Path(f)
      [] opt = "PathAlways" -> PathAlways(f)
      [] opt = "PayloadAsBase64" -> PayloadAsBase64(f)
      [] opt = "PayloadAsBase64Always" -> PayloadAsBase64Always(f)
      [] opt = "PayloadSize" -> PayloadSize(f)
      [] opt = "PayloadSizeAlways" -> PayloadSizeAlways(f)
      [] opt = "ServiceName" -> ServiceName(f)
      [] opt = "ServiceNameAlways" -> ServiceNameAlways(f)
      [] opt = "URL" -> URL(f)
      [] opt = "URLAlways" -> URLAlways(f)
      [] opt = "PartnerIDs" -> PartnerIDs(f)
      [] opt = "PartnerIDsAlways" -> PartnerIDsAlways(f)
      [] opt = "SessionID" -> SessionID(f)
      [] opt = "SessionIDAlways" -> SessionIDAlways(f)
      [] opt = "QualityOfService" -> QualityOfService(f)
      [] opt = "QualityOfServiceAlways" -> QualityOfServiceAlways(f)

\* ------------------------------------------------------------ observer.go
\* Lines 89-98 of ObserveWRP: the loop over ob.fields in index order, from
\* slot s on, appending every attr whose Key is not empty.
RECURSIVE AttrsFrom(_, _, _)
AttrsFrom(f, msg, s) ==
    IF s >= fieldCount THEN <<>>
    ELSE IF f[s] # NilFn /\ CallFieldFunc(f[s], msg).Key # ""
         THEN <<CallFieldFunc(f[s], msg)>> \o AttrsFrom(f, msg, s + 1)
         ELSE AttrsFrom(f, msg, s + 1)

\* Mutant of BuildAttrs: the slots are walked from the last to the first.
BuildAttrs_Descending(f, msg) ==
    LET a == AttrsFrom(f, msg, 0) IN [k \in 1 .. Len(a) |-> a[Len(a) + 1 - k]]

\* attrs[:idx] after the loop.
BuildAttrs(f, msg) == AttrsFrom(f, msg, 0)

\* The zero value of ob.fields: every slot nil.
EmptyFields == [s \in Slots |-> NilFn]

\* Mutant of CompileOpt: an option never overwrites an occupied slot.
CompileOpt_FirstWins(opt, f) ==
    IF opt # NilOpt /\ \A s \in Slots : ApplyOpt(opt, f)[s] # f[s] => f[s] = NilFn
    THEN ApplyOpt(opt, f)
    ELSE f

\* The body of the loop of init: a nil option is skipped, another is
\* applied to the Observer.
CompileOpt(opt, f) == IF opt # NilOpt THEN ApplyOpt(opt, f) ELSE f

\* The whole loop of init over a Fields list, from the table f.
RECURSIVE CompileFrom(_, _)
CompileFrom(list, f) ==
    IF list = <<>> THEN f
    ELSE CompileFrom(Tail(list), CompileOpt(Head(list), f))

\* The table init leaves in a new Observer.
CompileAll(list) == CompileFrom(list, EmptyFields)

\* ------------------------------------------------------------ the sink
\* slog levels.
LevelInfo == 0
LevelWarn == 4

NilLogger == "nil"

\* Two loggers over a recordHandler each: newRecordHandler(slog.LevelWarn)
\* and newRecordHandler(slog.LevelInfo).
Loggers == {"warnLogger", "infoLogger"}

HandlerLevel(logger) == IF logger = "warnLogger" THEN LevelWarn ELSE LevelInfo

\* recordHandler.Enabled, reached through Logger.Enabled.
Enabled(logger, level) == level >= HandlerLevel(logger)

\* ------------------------------------------------------------ inputs
NilSlice == [isnil |-> TRUE, elems |-> <<>>]
EmptySlice == [isnil |-> FALSE, elems |-> <<>>]
Slice(e) == [isnil |-> FALSE, elems |-> e]

\* wrp.Message{}
ZeroMsg ==
    [Type |-> 0, Source |-> "", Destination |-> "", TransactionUUID |-> "",
     ContentType |-> "", Accept |-> "", Status |-> <<>>,
     RequestDeliveryResponse |-> <<>>, Headers |-> NilSlice,
     Metadata |-> NilSlice, Path |-> "", Payload |-> NilSlice,
     ServiceName |-> "", URL |-> "", PartnerIDs |-> NilSlice,
     SessionID |-> "", QualityOfService |-> 0]

\* fullMsg of TestObserver_FieldOptions; the payload is "test payload".
FullMsg ==
    [Type |-> 3, Source |-> "dns:test.example.com/service",
     Destination |-> "mac:112233445566/config", TransactionUUID |-> "uuid-1234",
     ContentType |-> "application/json", Accept |-> "application/msgpack",
     Status |-> <<200>>, RequestDeliveryResponse |-> <<1>>,
     Headers |-> Slice(<<"X-Header: value">>),
     Metadata |-> Slice(<<"key", "value">>), Path |-> "/api/v1/test",
     Payload |-> Slice(<<116, 101, 115, 116, 32, 112, 97, 121, 108, 111, 97, 100>>),
     ServiceName |-> "test-service", URL |-> "http://example.com",
     PartnerIDs |-> Slice(<<"partner1">>), SessionID |-> "session-abc",
     QualityOfService |-> 25]

\* The messages of Example and Example_alwaysFields.
ExampleMsg ==
    [ZeroMsg EXCEPT !.Type = 3, !.Source = "dns:talaria.example.com/service",
                    !.Destination = "event:device-status/mac:112233445566/online",
                    !.TransactionUUID = "546514d4-9cb6-41c9-88ca-ccd4c130c525"]

ExampleAlwaysMsg ==
    [ZeroMsg EXCEPT !.Type = 4, !.Source = "dns:talaria.example.com/service"]

\* The zero message with one field set, to a non-empty value or to a
\* non-nil value that is still empty (a pointer to 0, an empty slice).
OneFieldMsgs ==
    { [ZeroMsg EXCEPT !.Type = v] : v \in {3, 4} }
    \cup { [ZeroMsg EXCEPT !.Source = FullMsg.Source],
           [ZeroMsg EXCEPT !.Destination = FullMsg.Destination],
           [ZeroMsg EXCEPT !.TransactionUUID = FullMsg.TransactionUUID],
           [ZeroMsg EXCEPT !.ContentType = FullMsg.ContentType],
           [ZeroMsg EXCEPT !.Accept = FullMsg.Accept],
           [ZeroMsg EXCEPT !.Path = FullMsg.Path],
           [ZeroMsg EXCEPT !.ServiceName = FullMsg.ServiceName],
           [ZeroMsg EXCEPT !.URL = FullMsg.URL],
           [ZeroMsg EXCEPT !.SessionID = FullMsg.SessionID],
           [ZeroMsg EXCEPT !.QualityOfService = FullMsg.QualityOfService] }
    \cup { [ZeroMsg EXCEPT !.Status = v] : v \in {<<0>>, <<200>>} }
    \cup { [ZeroMsg EXCEPT !.RequestDeliveryResponse = v] : v \in {<<0>>, <<1>>} }
    \cup { [ZeroMsg EXCEPT !.Headers = v] : v \in {EmptySlice, FullMsg.Headers} }
    \cup { [ZeroMsg EXCEPT !.Metadata = v] : v \in {EmptySlice, FullMsg.Metadata} }
    \cup { [ZeroMsg EXCEPT !.PartnerIDs = v] : v \in {EmptySlice, FullMsg.PartnerIDs} }
    \cup { [ZeroMsg EXCEPT !.Payload = v] :
             v \in {EmptySlice, Slice(<<116>>), Slice(<<104, 105>>), FullMsg.Payload} }

CatalogMsgs == {ZeroMsg, FullMsg, ExampleMsg, ExampleAlwaysMsg} \cup OneFieldMsgs

\* The messages of the concurrent specification.
SpecMsgs == {ZeroMsg, ExampleMsg}

\* Every constructor of fields.go.
Opts ==
    { "MessageType", "MessageTypeAsString", "MessageTypeAsNum",
      "Source", "SourceAlways", "Destination", "DestinationAlways",
      "TransactionUUID", "TransactionUUIDAlways", "ContentType", "ContentTypeAlways",
      "Accept", "AcceptAlways", "Status", "StatusAlways",
      "RequestDeliveryResponse", "RequestDeliveryResponseAlways",
      "Headers", "HeadersAlways", "Metadata", "MetadataAlways",
      "Path", "PathAlways", "PayloadAsBase64", "PayloadAsBase64Always",
      "PayloadSize", "PayloadSizeAlways", "ServiceName", "ServiceNameAlways",
      "URL", "URLAlways", "PartnerIDs", "PartnerIDsAlways",
      "SessionID", "SessionIDAlways", "QualityOfService", "QualityOfServiceAlways" }

\* The slot each constructor writes.
SlotTable == [o \in Opts |-> CHOOSE s \in Slots : ApplyOpt(o, EmptyFields)[s] # NilFn]

SlotOf(opt) == SlotTable[opt]

\* defaultFields and alwaysFields of TestObserver_FieldOptions.
DefaultFields ==
    << "MessageType", "Source", "Destination", "TransactionUUID", "ContentType",
       "Accept", "Status", "RequestDeliveryResponse", "Headers", "Metadata",
       "Path", "PayloadAsBase64", "PayloadSize", "ServiceName", "URL",
       "PartnerIDs", "SessionID", "QualityOfService" >>

AlwaysFields ==
    << "MessageType", "SourceAlways", "DestinationAlways", "TransactionUUIDAlways",
       "ContentTypeAlways", "AcceptAlways", "StatusAlways",
       "RequestDeliveryResponseAlways", "HeadersAlways", "MetadataAlways",
       "PathAlways", "PayloadAsBase64Always", "PayloadSizeAlways",
       "ServiceNameAlways", "URLAlways", "PartnerIDsAlways", "SessionIDAlways",
       "QualityOfServiceAlways" >>

\* The Fields of Example and Example_alwaysFields.
ExampleFields == << "MessageType", "Source", "Destination", "TransactionUUID" >>
ExampleAlwaysFields == << "MessageType", "Source", "DestinationAlways", "StatusAlways" >>

\* ------------------------------------------------------------ bounds
\* Concurrent callers of one Observer.
NumThreads == 2
\* Calls of ObserveWRP in one behaviour.
MaxCalls == 2
\* Assignments to the Observer's exported fields in one behaviour.
MaxMutations == 2
\* Length of the enumerated Fields lists of the catalog specification.
MaxFields == 2

Threads == 1 .. NumThreads

SeqsUpTo(n, S) == UNION { [1 .. k -> S] : k \in 0 .. n }

\* Fields lists of the catalog specification: the lists of the tests and
\* examples, and every list of at most MaxFields entries, nil included,
\* over the constructors of two neighbouring slots.
CatalogLists ==
    {DefaultFields, AlwaysFields, ExampleFields, ExampleAlwaysFields}
    \cup UNION { SeqsUpTo(MaxFields,
                    {NilOpt} \cup {o \in Opts : SlotOf(o) \in {s, (s + 1) % fieldCount}})
                 : s \in Slots }

\* Fields lists of the concurrent specification.
SpecLists ==
    { <<>>, << "Source" >>, << "MessageType", "MessageTypeAsString" >>,
      << "SourceAlways", NilOpt, "Source" >> }

\* ------------------------------------------------------------ state
VARIABLES
    Logger,       \* ob.Logger: NilLogger or one of Loggers
    Level,        \* ob.Level
    Message,      \* ob.Message
    Fields,       \* ob.Fields: a sequence of FieldOpt
    once,         \* ob.once: [done, m], m the thread holding the mutex, 0 for none
    fields,       \* ob.fields: the slot table
    th,           \* each thread's position in ObserveWRP and its locals
    records,      \* the records handed to the handlers, in order
    calls,        \* history: calls of ObserveWRP begun
    mutations,    \* history: assignments to the exported fields
    compileRuns,  \* history: executions of the function passed to once.Do
    compiledFrom, \* history: the Fields that function ranged over
    first,        \* history: the configuration the first call found
    outcomes,     \* history: calls returned, by the way they returned
    sink          \* history: calls of the handler's Enabled and Handle methods

vars == << Logger, Level, Message, Fields, once, fields, th, records, calls,
           mutations, compileRuns, compiledFrom, first, outcomes, sink >>

Idle ==
    [pc |-> "idle", msg |-> ZeroMsg, isfirst |-> FALSE, late |-> FALSE,
     list |-> <<>>, i |-> 0]

AllIdle == \A t \in Threads : th[t].pc = "idle"

\* An Observer literal before its first call, configured with l, lv and fl.
InitWith(l, lv, fl) ==
    /\ Logger = l
    /\ Level = lv
    /\ Message = "wrp message"
    /\ Fields = fl
    /\ once = [done |-> FALSE, m |-> 0]
    /\ fields = EmptyFields
    /\ th = [t \in Threads |-> Idle]
    /\ records = <<>>
    /\ calls = 0
    /\ mutations = 0
    /\ compileRuns = 0
    /\ compiledFrom = <<>>
    /\ first = [called |-> FALSE, returned |-> FALSE, Logger |-> NilLogger,
                Level |-> LevelInfo, Message |-> "", Fields |-> <<>>,
                outcome |-> "none"]
    /\ outcomes = [nologger |-> 0, disabled |-> 0, logged |-> 0]
    /\ sink = [Enabled |-> 0, Handle |-> 0]

Init ==
    \E l \in Loggers \cup {NilLogger}, lv \in {LevelInfo, LevelWarn}, fl \in SpecLists :
        InitWith(l, lv, fl)

\* The history of a call: the first call notes the configuration it finds.
Called(isfirst) ==
    IF isfirst
    THEN [first EXCEPT !.called = TRUE, !.Logger = Logger, !.Level = Level,
                       !.Message = Message, !.Fields = Fields]
    ELSE first

\* The history of a call that returns: it is counted, and the first call's
\* return is noted.
Returned(isfirst, how) ==
    /\ outcomes' = [outcomes EXCEPT ![how] = @ + 1]
    /\ first' = IF isfirst
                THEN [Called(isfirst) EXCEPT !.returned = TRUE, !.outcome = how]
                ELSE first

\* Mutant of ObserveWRP: ob.init() is called before the level is checked.
ObserveWRP_InitFirst(t, m) ==
    /\ th[t].pc = "idle"
    /\ calls < MaxCalls
    /\ calls' = calls + 1
    /\ sink' = IF Logger = NilLogger THEN sink ELSE [sink EXCEPT !.Enabled = @ + 1]
    /\ IF Logger = NilLogger
       THEN /\ Returned(calls = 0, "nologger")
            /\ UNCHANGED << th, once, fields, compileRuns, compiledFrom >>
       ELSE IF ~Enabled(Logger, Level)
       THEN /\ Returned(calls = 0, "disabled")
            /\ once' = [once EXCEPT !.done = TRUE]
            /\ fields' = IF once.done THEN fields ELSE CompileAll(Fields)
            /\ compileRuns' = IF once.done THEN compileRuns ELSE compileRuns + 1
            /\ compiledFrom' = IF once.done THEN compiledFrom ELSE Fields
            /\ UNCHANGED th
       ELSE /\ th' = [th EXCEPT ![t] = [Idle EXCEPT !.pc = "init", !.msg = m,
                                                    !.isfirst = (calls = 0),
                                                    !.late = first.returned]]
            /\ first' = Called(calls = 0)
            /\ UNCHANGED << outcomes, once, fields, compileRuns, compiledFrom >>
    /\ UNCHANGED << Logger, Level, Message, Fields, records, mutations >>

\* Mutant of ObserveWRP: ob.init() is called before Logger is looked at.
ObserveWRP_InitBeforeNil(t, m) ==
    /\ th[t].pc = "idle"
    /\ calls < MaxCalls
    /\ calls' = calls + 1
    /\ sink' = IF Logger = NilLogger THEN sink ELSE [sink EXCEPT !.Enabled = @ + 1]
    /\ IF Logger = NilLogger
       THEN /\ Returned(calls = 0, "nologger")
            /\ once' = [once EXCEPT !.done = TRUE]
            /\ fields' = IF once.done THEN fields ELSE CompileAll(Fields)
            /\ compileRuns' = IF once.done THEN compileRuns ELSE compileRuns + 1
            /\ compiledFrom' = IF once.done THEN compiledFrom ELSE Fields
            /\ UNCHANGED th
       ELSE IF ~Enabled(Logger, Level)
       THEN /\ Returned(calls = 0, "disabled")
            /\ UNCHANGED << th, once, fields, compileRuns, compiledFrom >>
       ELSE /\ th' = [th EXCEPT ![t] = [Idle EXCEPT !.pc = "init", !.msg = m,
                                                    !.isfirst = (calls = 0),
                                                    !.late = first.returned]]
            /\ first' = Called(calls = 0)
            /\ UNCHANGED << outcomes, once, fields, compileRuns, compiledFrom >>
    /\ UNCHANGED << Logger, Level, Message, Fields, records, mutations >>

\* ObserveWRP, lines 78-85: a call by thread t with message m returns at
\* once when Logger is nil or the level is not enabled, and goes on to
\* ob.init() otherwise.
ObserveWRP(t, m) ==
    /\ th[t].pc = "idle"
    /\ calls < MaxCalls
    /\ calls' = calls + 1
    /\ sink' = IF Logger = NilLogger THEN sink ELSE [sink EXCEPT !.Enabled = @ + 1]
    /\ IF Logger = NilLogger
       THEN Returned(calls = 0, "nologger") /\ UNCHANGED th
       ELSE IF ~Enabled(Logger, Level)
       THEN Returned(calls = 0, "disabled") /\ UNCHANGED th
       ELSE /\ th' = [th EXCEPT ![t] = [Idle EXCEPT !.pc = "init", !.msg = m,
                                                    !.isfirst = (calls = 0),
                                                    !.late = first.returned]]
            /\ first' = Called(calls = 0)
            /\ UNCHANGED outcomes
    /\ UNCHANGED << Logger, Level, Message, Fields, once, fields, records,
                    mutations, compileRuns, compiledFrom >>

\* ob.once.Do, line 68: a caller that finds the Once done goes on, another
\* takes the slow path.
OnceDo(t) ==
    /\ th[t].pc = "init"
    /\ th' = [th EXCEPT ![t].pc = IF once.done THEN "attrs" ELSE "doSlow"]
    /\ UNCHANGED << Logger, Level, Message, Fields, once, fields, records, calls,
                    mutations, compileRuns, compiledFrom, first, outcomes, sink >>

\* Mutant of OnceLock: the function is run without the mutex and without
\* looking at done again.
OnceLock_NoMutex(t) ==
    /\ th[t].pc = "doSlow"
    /\ once' = [once EXCEPT !.m = t]
    /\ th' = [th EXCEPT ![t].pc = "compile", ![t].list = Fields, ![t].i = 1]
    /\ compileRuns' = compileRuns + 1
    /\ compiledFrom' = Fields
    /\ UNCHANGED << Logger, Level, Message, Fields, fields, records, calls,
                    mutations, first, outcomes, sink >>

\* Mutant of OnceLock: done is set when the function starts rather than
\* when it has returned.
OnceLock_DoneEarly(t) ==
    /\ th[t].pc = "doSlow"
    /\ once.m = 0
    /\ IF once.done
       THEN /\ th' = [th EXCEPT ![t].pc = "attrs"]
            /\ UNCHANGED << once, compileRuns, compiledFrom >>
       ELSE /\ once' = [done |-> TRUE, m |-> t]
            /\ th' = [th EXCEPT ![t].pc = "compile", ![t].list = Fields, ![t].i = 1]
            /\ compileRuns' = compileRuns + 1
            /\ compiledFrom' = Fields
    /\ UNCHANGED << Logger, Level, Message, Fields, fields, records, calls,
                    mutations, first, outcomes, sink >>

\* The slow path of once.Do: under the mutex, the caller that still finds
\* the Once not done runs the function, which starts to range over
\* ob.Fields (line 69); a caller that finds it done unlocks and goes on.
OnceLock(t) ==
    /\ th[t].pc = "doSlow"
    /\ once.m = 0
    /\ IF once.done
       THEN /\ th' = [th EXCEPT ![t].pc = "attrs"]
            /\ UNCHANGED << once, compileRuns, compiledFrom >>
       ELSE /\ once' = [once EXCEPT !.m = t]
            /\ th' = [th EXCEPT ![t].pc = "compile", ![t].list = Fields, ![t].i = 1]
            /\ compileRuns' = compileRuns + 1
            /\ compiledFrom' = Fields
    /\ UNCHANGED << Logger, Level, Message, Fields, fields, records, calls,
                    mutations, first, outcomes, sink >>

\* Mutant of CompileStep: a nil entry ends the loop instead of being
\* skipped.
CompileStep_BreakOnNil(t) ==
    /\ th[t].pc = "compile"
    /\ th[t].i <= Len(th[t].list)
    /\ th[t].list[th[t].i] # ReenterOpt
    /\ fields' = CompileOpt(th[t].list[th[t].i], fields)
    /\ th' = [th EXCEPT ![t].i = IF th[t].list[th[t].i] = NilOpt
                                 THEN Len(th[t].list) + 1
                                 ELSE @ + 1]
    /\ UNCHANGED << Logger, Level, Message, Fields, once, records, calls,
                    mutations, compileRuns, compiledFrom, first, outcomes, sink >>

\* One iteration of the loop of init, lines 69-73, over an entry that is
\* nil or came from a constructor of fields.go.
CompileStep(t) ==
    /\ th[t].pc = "compile"
    /\ th[t].i <= Len(th[t].list)
    /\ th[t].list[th[t].i] # ReenterOpt
    /\ fields' = CompileOpt(th[t].list[th[t].i], fields)
    /\ th' = [th EXCEPT ![t].i = @ + 1]
    /\ UNCHANGED << Logger, Level, Message, Fields, once, records, calls,
                    mutations, compileRuns, compiledFrom, first, outcomes, sink >>

\* Mutant of CompileDone: the Once is not marked done.
CompileDone_NotDone(t) ==
    /\ th[t].pc = "compile"
    /\ th[t].i > Len(th[t].list)
    /\ once' = [done |-> FALSE, m |-> 0]
    /\ th' = [th EXCEPT ![t].pc = "attrs", ![t].list = <<>>, ![t].i = 0]
    /\ UNCHANGED << Logger, Level, Message, Fields, fields, records, calls,
                    mutations, compileRuns, compiledFrom, first, outcomes, sink >>

\* The end of the function passed to once.Do: the Once is marked done and
\* the mutex released.
CompileDone(t) ==
    /\ th[t].pc = "compile"
    /\ th[t].i > Len(th[t].list)
    /\ once' = [done |-> TRUE, m |-> 0]
    /\ th' = [th EXCEPT ![t].pc = "attrs", ![t].list = <<>>, ![t].i = 0]
    /\ UNCHANGED << Logger, Level, Message, Fields, fields, records, calls,
                    mutations, compileRuns, compiledFrom, first, outcomes, sink >>

\* Logger.LogAttrs: the handler is asked once more whether the level is
\* enabled, and its Handle receives the record when it is.
\* The record carries, as history, the message observed, whether the call
\* began after the first call had returned, and ob.Fields as it is now.
LogAttrs(t, logger, level, message, attrs) ==
    IF Enabled(logger, level)
    THEN Append(records, [logger |-> logger, level |-> level, message |-> message,
                          attrs |-> attrs, msg |-> th[t].msg, late |-> th[t].late,
                          Fields |-> Fields])
    ELSE records

\* Mutant of LogRecord: nothing is handed to the Logger when no attribute
\* was collected.
LogRecord_SkipEmpty(t) ==
    /\ th[t].pc = "attrs"
    /\ records' = IF BuildAttrs(fields, th[t].msg) = <<>>
                  THEN records
                  ELSE LogAttrs(t, Logger, Level, Message, BuildAttrs(fields, th[t].msg))
    /\ sink' = [Enabled |-> sink.Enabled + Len(records') - Len(records),
                Handle |-> sink.Handle + Len(records') - Len(records)]
    /\ th' = [th EXCEPT ![t] = Idle]
    /\ Returned(th[t].isfirst, "logged")
    /\ UNCHANGED << Logger, Level, Message, Fields, once, fields, calls,
                    mutations, compileRuns, compiledFrom >>

\* ObserveWRP, lines 89-100: the attrs are built from ob.fields and handed
\* to ob.Logger at ob.Level with ob.Message.
LogRecord(t) ==
    /\ th[t].pc = "attrs"
    /\ records' = LogAttrs(t, Logger, Level, Message, BuildAttrs(fields, th[t].msg))
    /\ sink' = [Enabled |-> sink.Enabled + 1,
                Handle |-> sink.Handle + Len(records') - Len(records)]
    /\ th' = [th EXCEPT ![t] = Idle]
    /\ Returned(th[t].isfirst, "logged")
    /\ UNCHANGED << Logger, Level, Message, Fields, once, fields, calls,
                    mutations, compileRuns, compiledFrom >>

\* The caller assigns to an exported field of the Observer between calls
\* (an assignment during a call would race with the call's reads).
MutateLogger(l) ==
    /\ AllIdle /\ mutations < MaxMutations /\ l # Logger
    /\ Logger' = l
    /\ mutations' = mutations + 1
    /\ UNCHANGED << Level, Message, Fields, once, fields, th, records, calls,
                    compileRuns, compiledFrom, first, outcomes, sink >>

MutateLevel(lv) ==
    /\ AllIdle /\ mutations < MaxMutations /\ lv # Level
    /\ Level' = lv
    /\ mutations' = mutations + 1
    /\ UNCHANGED << Logger, Message, Fields, once, fields, th, records, calls,
                    compileRuns, compiledFrom, first, outcomes, sink >>

MutateMessage(text) ==
    /\ AllIdle /\ mutations < MaxMutations /\ text # Message
    /\ Message' = text
    /\ mutations' = mutations + 1
    /\ UNCHANGED << Logger, Level, Fields, once, fields, th, records, calls,
                    compileRuns, compiledFrom, first, outcomes, sink >>

MutateFields(fl) ==
    /\ AllIdle /\ mutations < MaxMutations /\ fl # Fields
    /\ Fields' = fl
    /\ mutations' = mutations + 1
    /\ UNCHANGED << Logger, Level, Message, once, fields, th, records, calls,
                    compileRuns, compiledFrom, first, outcomes, sink >>

\* Concurrent callers of one Observer whose owner reassigns its fields
\* between calls.
Next ==
    \/ \E t \in Threads, m \in SpecMsgs : ObserveWRP(t, m)
    \/ \E t \in Threads : OnceDo(t)
    \/ \E t \in Threads : OnceLock(t)
    \/ \E t \in Threads : CompileStep(t)
    \/ \E t \in Threads : CompileDone(t)
    \/ \E t \in Threads : LogRecord(t)
    \/ \E l \in Loggers \cup {NilLogger} : MutateLogger(l)
    \/ \E lv \in {LevelInfo, LevelWarn} : MutateLevel(lv)
    \/ \E text \in {"wrp message", "other message"} : MutateMessage(text)
    \/ \E fl \in SpecLists : MutateFields(fl)

Spec == Init /\ [][Next]_vars

\* A FieldOpt is an exported func(*Observer) (fields.go:64), so a caller
\* holding the Observer can call one on it: wrpslog.DestinationAlways()(ob)
\* runs the constructor's closure, which stores into ob.fields without going
\* through ob.once.  The caller does so between calls (during a call it
\* would race with the call's reads of ob.fields).
ApplyDirect(opt) ==
    /\ AllIdle /\ mutations < MaxMutations
    /\ fields' = ApplyOpt(opt, fields)
    /\ mutations' = mutations + 1
    /\ UNCHANGED << Logger, Level, Message, Fields, once, th, records, calls,
                    compileRuns, compiledFrom, first, outcomes, sink >>

\* The options the caller applies directly.
DirectOpts == {"DestinationAlways", "MessageTypeAsString"}

\* Concurrent callers of one Observer whose owner reassigns its fields and
\* applies options to it between calls.
NextDirect ==
    \/ Next
    \/ \E opt \in DirectOpts : ApplyDirect(opt)

SpecDirect == Init /\ [][NextDirect]_vars

\* The iteration of the loop of init over the caller's ReenterOpt: opt(ob),
\* line 71, calls ob.ObserveWRP on the same goroutine, inside the function
\* passed to once.Do.  The nested call returns at once on a nil Logger or a
\* disabled level and the loop goes on; otherwise it reaches ob.init() and
\* once.Do anew, its caller's frame (list, i) below it.  The Once is not
\* done and its mutex is held by this very goroutine.
CompileReenter(t) ==
    /\ th[t].pc = "compile"
    /\ th[t].i <= Len(th[t].list)
    /\ th[t].list[th[t].i] = ReenterOpt
    /\ calls' = calls + 1
    /\ sink' = IF Logger = NilLogger THEN sink ELSE [sink EXCEPT !.Enabled = @ + 1]
    /\ IF Logger = NilLogger
       THEN Returned(FALSE, "nologger") /\ th' = [th EXCEPT ![t].i = @ + 1]
       ELSE IF ~Enabled(Logger, Level)
       THEN Returned(FALSE, "disabled") /\ th' = [th EXCEPT ![t].i = @ + 1]
       ELSE /\ th' = [th EXCEPT ![t].pc = "init"]
            /\ UNCHANGED << first, outcomes >>
    /\ UNCHANGED << Logger, Level, Message, Fields, once, fields, records,
                    mutations, compileRuns, compiledFrom >>

\* Fields lists with and without the caller's ReenterOpt.
ReenterLists ==
    { << "Source" >>, << ReenterOpt >>, << "Source", ReenterOpt, "Destination" >> }

InitReenter ==
    \E l \in Loggers, lv \in {LevelInfo, LevelWarn}, fl \in ReenterLists :
        InitWith(l, lv, fl)

\* A step of the call that goroutine t is in.
Step(t) ==
    \/ OnceDo(t)
    \/ OnceLock(t)
    \/ CompileStep(t)
    \/ CompileReenter(t)
    \/ CompileDone(t)
    \/ LogRecord(t)

NextReenter ==
    \/ \E t \in Threads, m \in SpecMsgs : ObserveWRP(t, m)
    \/ \E t \in Threads : Step(t)

\* Concurrent callers of one Observer whose Fields may hold ReenterOpt.  The
\* Go scheduler lets every goroutine that can run do so, and the handler
\* returns.
SpecReenter ==
    /\ InitReenter
    /\ [][NextReenter]_vars
    /\ \A t \in Threads : WF_vars(Step(t))

\* One caller, one call: every message of the catalog observed under every
\* Fields list of the catalog by an enabled logger.
InitCatalog == \E fl \in CatalogLists : InitWith("infoLogger", LevelInfo, fl)

NextCatalog ==
    \/ \E m \in CatalogMsgs : calls = 0 /\ ObserveWRP(1, m)
    \/ OnceDo(1)
    \/ OnceLock(1)
    \/ CompileStep(1)
    \/ CompileDone(1)
    \/ LogRecord(1)

SpecCatalog == InitCatalog /\ [][NextCatalog]_vars

\* ------------------------------------------------------------ claims
\* The records handed to the handlers so far.
Recs == { records[k] : k \in 1 .. Len(records) }

\* The 18 stable keys, in slot-declaration order.
StableKeys ==
    << "msg_type", "source", "dest", "transaction_uuid", "content_type", "accept",
       "status", "rdr", "headers", "metadata", "path", "payload", "payload_size",
       "service_name", "url", "partner_ids", "session_id", "qos" >>

\* The message field each slot reads.
FieldOfSlot ==
    << "Type", "Source", "Destination", "TransactionUUID", "ContentType", "Accept",
       "Status", "RequestDeliveryResponse", "Headers", "Metadata", "Path", "Payload",
       "Payload", "ServiceName", "URL", "PartnerIDs", "SessionID", "QualityOfService" >>

\* The field of the message that slot s reads holds its zero or empty value.
EmptyField(s, msg) ==
    LET name == FieldOfSlot[s + 1] IN
    CASE name \in {"Type", "QualityOfService"} -> msg[name] = 0
      [] name \in {"Status", "RequestDeliveryResponse"} -> msg[name] = <<>>
      [] name \in {"Headers", "Metadata", "Payload", "PartnerIDs"} ->
            Len(msg[name].elems) = 0
      [] OTHER -> msg[name] = ""

\* The positions of a Fields list that hold an option for slot s.
Targeting(list, s) == { k \in 1 .. Len(list) : list[k] # NilOpt /\ SlotOf(list[k]) = s }

Max(S) == CHOOSE x \in S : \A y \in S : y <= x

\* The last option of a Fields list for slot s, NilOpt when there is none.
LastOpt(list, s) ==
    IF Targeting(list, s) = {} THEN NilOpt ELSE list[Max(Targeting(list, s))]

\* The attributes of a record that carry the key of slot s.
AttrsOf(r, s) == SelectSeq(r.attrs, LAMBDA a : a.Key = StableKeys[s + 1])

\* What one option alone emits for a message.
Alone(opt, msg) == BuildAttrs(CompileAll(<<opt>>), msg)

\* C1: with N callers running ObserveWRP concurrently on an Observer with
\* an enabled Logger, the compile loop of init is executed exactly once in
\* every interleaving: never twice, and once for every caller that is past
\* ob.init() and for every record emitted, whatever call comes later.
C1_CompileOnce ==
    /\ compileRuns <= 1
    /\ \A t \in Threads : th[t].pc = "attrs" => compileRuns = 1 /\ once.done
    /\ outcomes.logged > 0 => compileRuns = 1 /\ once.done

\* Two callers race for the compilation: one runs it, the other waits for
\* the mutex.
C1_Witness ==
    \E t1, t2 \in Threads :
        /\ th[t1].pc = "compile"
        /\ th[t2].pc = "doSlow"
        /\ compileRuns = 1

\* C2: once the table is compiled, a later change of Fields has no effect:
\* the table stays the one compiled from the Fields of that time, and every
\* record carries the attributes that table gives for its message.
C2_FieldsFrozen ==
    /\ once.done => fields = CompileAll(compiledFrom)
    /\ \A r \in Recs : r.attrs = BuildAttrs(CompileAll(compiledFrom), r.msg)

\* A record emitted after Fields was changed to a list that would have
\* given other attributes for the message.
C2_Witness ==
    \E r \in Recs :
        /\ r.Fields # compiledFrom
        /\ BuildAttrs(CompileAll(r.Fields), r.msg) # r.attrs

\* C3: Logger, Level and Message are read once, on the first call: every
\* record is emitted on the Logger, at the Level and with the Message the
\* first call found.
C3_ConfigReadOnce ==
    \A r \in Recs :
        /\ r.logger = first.Logger
        /\ r.level = first.Level
        /\ r.message = first.Message

\* C4: the first call freezes the configuration whatever its outcome: every
\* record of a call begun after the first call returned carries the
\* attributes of the Fields the first call found.
C4_FrozenByFirstCall ==
    \A r \in Recs :
        r.late => r.attrs = BuildAttrs(CompileAll(first.Fields), r.msg)

\* C5, as stated: for every slot that two or more options of Fields target,
\* every record holds exactly one attribute with the slot's key, the one the
\* last of those options produces.
C5_ExactlyOne ==
    \A r \in Recs : \A s \in Slots :
        Cardinality(Targeting(compiledFrom, s)) >= 2 =>
            /\ Len(AttrsOf(r, s)) = 1
            /\ AttrsOf(r, s) = Alone(LastOpt(compiledFrom, s), r.msg)

\* C5, amended: for every slot that two or more options of Fields target,
\* the attributes of a record with the slot's key are exactly what the last
\* of those options alone emits for the message: one attribute, or none
\* when that option skips the message; the earlier options never contribute.
C5_LastWins ==
    \A r \in Recs : \A s \in Slots :
        Cardinality(Targeting(compiledFrom, s)) >= 2 =>
            /\ Len(AttrsOf(r, s)) <= 1
            /\ AttrsOf(r, s) = Alone(LastOpt(compiledFrom, s), r.msg)

\* A record for Fields with two options of one slot that emit different
\* attributes for the message, the last one's being in the record.
C5_Witness ==
    \E r \in Recs : \E s \in Slots : \E k \in Targeting(compiledFrom, s) :
        /\ k < Max(Targeting(compiledFrom, s))
        /\ Alone(compiledFrom[k], r.msg) # Alone(LastOpt(compiledFrom, s), r.msg)
        /\ Len(AttrsOf(r, s)) = 1
        /\ AttrsOf(r, s) = Alone(LastOpt(compiledFrom, s), r.msg)

\* The position of a key among the stable keys.
KeyIndex(key) == CHOOSE k \in 1 .. Len(StableKeys) : StableKeys[k] = key

\* Two Fields lists with the same last option for every slot.
SameWinners(l1, l2) == \A s \in Slots : LastOpt(l1, s) = LastOpt(l2, s)

Swap(list, a, b) == [list EXCEPT ![a] = list[b], ![b] = list[a]]

\* Rearrangements of a Fields list: every permutation of a list of at most
\* MaxFields + 1 entries; of a longer list, every exchange of two entries
\* and the reversed list.
Rearranged(list) ==
    IF Len(list) <= MaxFields + 1
    THEN { [k \in 1 .. Len(list) |-> list[p[k]]] : p \in Permutations(1 .. Len(list)) }
    ELSE { Swap(list, a, b) : a, b \in 1 .. Len(list) }
         \cup { [k \in 1 .. Len(list) |-> list[Len(list) + 1 - k]] }

\* C6: the attributes of every record are in ascending slot-declaration
\* order whatever the order of Fields: the keys are stable keys in strictly
\* ascending position, and an Observer whose Fields is a rearrangement with
\* the same last option per slot emits the same attribute list.
C6_SlotOrder ==
    \A r \in Recs :
        /\ \A k \in 1 .. Len(r.attrs) :
              /\ \E j \in 1 .. Len(StableKeys) : StableKeys[j] = r.attrs[k].Key
              /\ k > 1 => KeyIndex(r.attrs[k - 1].Key) < KeyIndex(r.attrs[k].Key)
        /\ \A l \in Rearranged(compiledFrom) :
              SameWinners(l, compiledFrom) => BuildAttrs(CompileAll(l), r.msg) = r.attrs

\* A record of two or more attributes for Fields that names a later slot
\* before an earlier one.
C6_Witness ==
    \E r \in Recs : \E a, b \in 1 .. Len(compiledFrom) :
        /\ a < b
        /\ compiledFrom[a] # NilOpt /\ compiledFrom[b] # NilOpt
        /\ SlotOf(compiledFrom[a]) > SlotOf(compiledFrom[b])
        /\ Len(AttrsOf(r, SlotOf(compiledFrom[a]))) = 1
        /\ Len(AttrsOf(r, SlotOf(compiledFrom[b]))) = 1

\* The plain options: one per slot, the defaultFields of the tests.
PlainOpts == { DefaultFields[k] : k \in 1 .. Len(DefaultFields) }

\* The Always options.
AlwaysOpts == { AlwaysFields[k] : k \in 1 .. Len(AlwaysFields) } \ {"MessageType"}

ZeroRendering(s, msg, v) ==
    LET name == FieldOfSlot[s + 1] IN
    CASE name \in {"Headers", "Metadata", "PartnerIDs"} ->
            /\ v.kind = "Any"
            /\ v.any.elems = <<>>
            /\ v.any.isnil = msg[name].isnil
            /\ v.any.type = IF name = "Metadata" THEN "map[string]string" ELSE "[]string"
      [] name \in {"Status", "RequestDeliveryResponse", "QualityOfService"}
         \/ s = idxPayloadSize ->
            v.kind = "Int64" /\ v.num = 0
      [] OTHER -> v.kind = "String" /\ v.str = ""

\* C8: for every Always option and every message, the record holds an
\* attribute with the key of the option's slot, and for a zero or empty
\* field its value is the zero rendering.
C8_AlwaysLaw ==
    \A r \in Recs : \A s \in Slots :
        LastOpt(compiledFrom, s) \in AlwaysOpts =>
            /\ Len(AttrsOf(r, s)) = 1
            /\ EmptyField(s, r.msg) => ZeroRendering(s, r.msg, AttrsOf(r, s)[1].Value)

\* A record that holds the attribute of an Always option whose field is
\* zero or empty.
C8_Witness ==
    \E r \in Recs : \E s \in Slots :
        /\ LastOpt(compiledFrom, s) \in AlwaysOpts
        /\ EmptyField(s, r.msg)
        /\ Len(AttrsOf(r, s)) = 1

\* C9: MessageType() and QualityOfService() are their always-emit forms:
\* they emit the number whatever it is, and with the 18 plain options and a
\* message whose every field is zero the record holds msg_type=0 and qos=0
\* and nothing else.
C9_PlainAliases ==
    \A r \in Recs :
        /\ LastOpt(compiledFrom, idxMsgType) = "MessageType" =>
              AttrsOf(r, idxMsgType) =
                  << [Key |-> "msg_type",
                      Value |-> [kind |-> "Int64", num |-> r.msg.Type, str |-> "",
                                 any |-> NilAny]] >>
        /\ LastOpt(compiledFrom, idxQualityOfService) = "QualityOfService" =>
              AttrsOf(r, idxQualityOfService) =
                  << [Key |-> "qos",
                      Value |-> [kind |-> "Int64", num |-> r.msg.QualityOfService,
                                 str |-> "", any |-> NilAny]] >>
        /\ (compiledFrom = DefaultFields /\ r.msg = ZeroMsg) =>
              r.attrs =
                  << [Key |-> "msg_type",
                      Value |-> [kind |-> "Int64", num |-> 0, str |-> "", any |-> NilAny]],
                     [Key |-> "qos",
                      Value |-> [kind |-> "Int64", num |-> 0, str |-> "", any |-> NilAny]] >>

\* The record of the zero message under the 18 plain options.
C9_Witness ==
    \E r \in Recs :
        /\ compiledFrom = DefaultFields
        /\ r.msg = ZeroMsg
        /\ Len(r.attrs) = 2

\* C10: a call that finds the level disabled returns without emitting and
\* without compiling: as long as every call begun has returned on the
\* disabled path or for want of a Logger, no record has reached a handler,
\* the Once is not done, the function of init has not run and every slot of
\* the table is nil.
C10_DisabledFastPath ==
    calls = outcomes.disabled + outcomes.nologger =>
        /\ records = <<>>
        /\ ~once.done /\ once.m = 0
        /\ compileRuns = 0
        /\ fields = EmptyFields

\* Two calls have returned on the disabled path of an Observer with a
\* non-empty Fields, and the table is not compiled.
C10_Witness ==
    /\ outcomes.disabled >= 2
    /\ calls = outcomes.disabled
    /\ Fields # <<>>
    /\ fields = EmptyFields /\ ~once.done

\* C11: a call of ObserveWRP on an Observer whose Logger is nil returns at
\* once, for every message and every Fields list: the call is counted as
\* returned in the step that begins it, no method of a handler is called
\* (neither Enabled nor Handle), no record is handed over, and the Once and
\* the slot table are left as they were.
C11_NilLoggerNoOp ==
    [][(calls' = calls + 1 /\ Logger = NilLogger)
        => /\ outcomes'.nologger = outcomes.nologger + 1
           /\ \A t \in Threads : th'[t] = th[t]
           /\ UNCHANGED << sink, records, once, fields, compileRuns, compiledFrom >>]_vars

\* A call has returned on the nil-Logger path of an Observer whose Fields
\* list is not empty and whose slot table is not compiled.
C11_Witness ==
    /\ Logger = NilLogger
    /\ outcomes.nologger >= 1
    /\ Len(Fields) > 0
    /\ ~once.done

\* The calls of ObserveWRP that have begun and not returned.
InFlight == { t \in Threads : th[t].pc # "idle" }

\* C12: every call that finds a non-nil Logger whose handler enables the
\* Level hands exactly one record to the handler, carrying ob.Level and
\* ob.Message, also when the attrs are empty; a call on the nil-Logger or
\* the disabled path hands over none.  So the records are as many as the
\* calls returned past the level check, every call is in flight or returned
\* one of the three ways, the step that returns a call past the level check
\* appends one record with the Observer's Logger, Level and Message, and
\* the step of a call that returns early appends none.
C12_OneRecordPerEnabledCall ==
    /\ [](/\ Len(records) = outcomes.logged
           /\ sink.Handle = outcomes.logged
           /\ calls = outcomes.nologger + outcomes.disabled + outcomes.logged
                       + Cardinality(InFlight))
    /\ [][\A t \in Threads :
            (th[t].pc = "attrs" /\ th'[t].pc = "idle")
            => /\ Len(records') = Len(records) + 1
               /\ SubSeq(records', 1, Len(records)) = records
               /\ records'[Len(records')].logger = Logger
               /\ records'[Len(records')].level = Level
               /\ records'[Len(records')].message = Message
               /\ records'[Len(records')].msg = th[t].msg]_vars
    /\ [][(calls' = calls + 1 /\ (Logger = NilLogger \/ ~Enabled(Logger, Level)))
            => (records' = records /\ InFlight' = InFlight)]_vars

\* A record without attributes was handed over although Fields is not
\* empty: every selector skipped the message.
C12_Witness ==
    \E r \in Recs : r.attrs = <<>> /\ compiledFrom # <<>> /\ r.logger = Logger

\* The slots that have a plain option and an Always option of their own,
\* as positions of DefaultFields and AlwaysFields.
Paired == 2 .. Len(DefaultFields)

\* C13: for every slot and every message whose field for that slot is not
\* empty, the plain option and its Always counterpart produce the same
\* attribute, key and value: the record of either holds for the slot
\* exactly the one attribute that the plain option alone and the Always
\* option alone both emit.  The two differ only on zero or empty fields.
C13_PlainEqualsAlways ==
    \A r \in Recs : \A k \in Paired :
        LET s == SlotOf(DefaultFields[k]) IN
        (/\ LastOpt(compiledFrom, s) \in {DefaultFields[k], AlwaysFields[k]}
         /\ ~EmptyField(s, r.msg))
        => /\ Len(AttrsOf(r, s)) = 1
           /\ AttrsOf(r, s) = Alone(DefaultFields[k], r.msg)
           /\ AttrsOf(r, s) = Alone(AlwaysFields[k], r.msg)

\* A record of PayloadSizeAlways for a payload of two bytes holds the very
\* attribute PayloadSize alone emits for that message.
C13_Witness ==
    \E r \in Recs :
        /\ LastOpt(compiledFrom, idxPayloadSize) = "PayloadSizeAlways"
        /\ Len(r.msg.Payload.elems) = 2
        /\ AttrsOf(r, idxPayloadSize) = Alone("PayloadSize", r.msg)

\* The keys of a record's attributes, in order.
KeysOf(r) == [k \in 1 .. Len(r.attrs) |-> r.attrs[k].Key]

\* C14: in every record each attribute key is one of the 18 stable keys and
\* no key appears twice; the selector in slot S emits for the record's
\* message the key of S or, when it skips, the empty key; a record never
\* holds more than fieldCount attributes, the write index of the loop being
\* the number of attributes collected.
C14_KeysAndBound ==
    /\ \A r \in Recs :
          /\ Len(r.attrs) <= fieldCount
          /\ \A k \in 1 .. Len(r.attrs) : \E s \in Slots : r.attrs[k].Key = StableKeys[s + 1]
          /\ \A j, k \in 1 .. Len(r.attrs) : j # k => r.attrs[j].Key # r.attrs[k].Key
    /\ \A s \in Slots :
          fields[s] # NilFn =>
              \A m \in CatalogMsgs :
                  CallFieldFunc(fields[s], m).Key \in {"", StableKeys[s + 1]}

\* A record with all fieldCount attributes, every slot holding a selector.
C14_Witness ==
    \E r \in Recs :
        /\ Len(r.attrs) = fieldCount
        /\ \A s \in Slots : fields[s] # NilFn
        /\ KeysOf(r) = StableKeys

\* The callers running the function passed to once.Do.
Compiling == { t \in Threads : th[t].pc = "compile" }

\* C15: in every interleaving, a call evaluates the slot table (it is past
\* ob.init(), about to build its attrs) only when the one-time compilation
\* has applied every entry of the Fields it ranged over: the Once is done,
\* nobody is compiling, and the table is the compilation of that whole
\* list.  While a caller compiles, the Once is not done, the compiler holds
\* the mutex, and every other caller in flight is before or at the lock.
\* No record is built from an empty or partly compiled table.
C15_CompiledBeforeUse ==
    /\ \A t \in Threads :
          th[t].pc = "attrs" =>
              /\ once.done
              /\ Compiling = {}
              /\ fields = CompileAll(compiledFrom)
    /\ \A t \in Compiling :
          /\ ~once.done
          /\ once.m = t
          /\ \A u \in Threads \ {t} : th[u].pc \in {"idle", "init", "doSlow"}
    /\ \A r \in Recs : r.attrs = BuildAttrs(CompileAll(compiledFrom), r.msg)

\* A caller waits at the lock while the winner is in the middle of the
\* loop, the table holding some but not all of what Fields asks for.
C15_Witness ==
    \E t, u \in Threads :
        /\ th[t].pc = "compile"
        /\ th[t].i > 1
        /\ fields # EmptyFields
        /\ fields # CompileAll(th[t].list)
        /\ th[u].pc = "doSlow"

\* C16: once the slot table is compiled it is read-only: no step of any
\* caller, a later ObserveWRP call and the direct application of a FieldOpt
\* to the Observer included, changes a slot.
C16_TableReadOnly == [][once.done => fields' = fields]_vars

\* A Fields list with its nil entries removed.
WithoutNil(list) == SelectSeq(list, LAMBDA o : o # NilOpt)

\* Every option of a list without nil entries applied in order, with no
\* test for nil.
RECURSIVE ApplyEach(_, _)
ApplyEach(list, f) ==
    IF list = <<>> THEN f ELSE ApplyEach(Tail(list), ApplyOpt(Head(list), f))

\* C17: the compilation skips the nil entries of Fields: a list that holds
\* nil entries compiles, without failure, to the table of the same list
\* with the nil entries removed, the call that compiled it returns with its
\* record, and the record is the one the list without them yields.
C17_NilEntriesSkipped ==
    /\ once.done => fields = ApplyEach(WithoutNil(compiledFrom), EmptyFields)
    /\ \A r \in Recs :
          r.attrs = BuildAttrs(ApplyEach(WithoutNil(compiledFrom), EmptyFields), r.msg)
    /\ (calls > 0 /\ InFlight = {}) => Len(records) = calls

\* A list whose first entry is nil and whose second is an option was
\* compiled, and the record carries the option's attribute.
C17_Witness ==
    \E r \in Recs :
        /\ Len(compiledFrom) = 2
        /\ compiledFrom[1] = NilOpt
        /\ compiledFrom[2] # NilOpt
        /\ Len(r.attrs) = 1
        /\ r.attrs = Alone(compiledFrom[2], r.msg)

\* C18: every call of ObserveWRP eventually returns, the handler returning
\* and the scheduler being fair, for any number of concurrent callers,
\* those arriving while the compilation runs included, and for any FieldOpt
\* in Fields: no call stays forever at the Once.
C18_EveryCallReturns ==
    \A t \in Threads : (th[t].pc # "idle") ~> (th[t].pc = "idle")

====
